---- MODULE Spec2Model ----
(***************************************************************************)
(* getLatestTag (packages/fetch-engine/src/getLatestTag.ts): resolve the   *)
(* newest commit of prisma-engines whose reference artifact is published,  *)
(* then probe every (platform, engine, extension) artifact of that commit  *)
(* through a p-queue of bounded concurrency and aggregate the outcomes.    *)
(*                                                                         *)
(* Spec       the whole call: list fetch, sequential scan, enqueue loop,   *)
(*            concurrent probes, join and aggregation.                     *)
(* SpecProbe  urlExists alone, applied to every response of a bounded set. *)
(***************************************************************************)
EXTENDS Integers, Sequences, FiniteSets, TLC

(***************************************************************************)
(* Bounds of the model.                                                    *)
(***************************************************************************)
\* The limit handed to PQueue. The source passes 30; the model runs the same
\* queue with a smaller limit so that every interleaving of the 20 probes of
\* one platform can be enumerated, the task set staying larger than the limit.
concurrency == 2

\* Longest candidate commit list returned by the commits request.
MaxCommits == 2

\* Longest content-length header value handed to parseInt.
MaxHeaderLen == 2

\* Most models in the local schema handed to Doctor.parse.
MaxModels == 2

(***************************************************************************)
(* Program constants.                                                      *)
(***************************************************************************)
Range(s) == {s[i] : i \in DOMAIN s}

excludedPlatforms == <<"freebsd", "arm", "linux-nixos", "openbsd", "netbsd">>

engines == <<"query-engine", "introspection-engine", "migration-engine", "prisma-fmt">>

extensions == <<".gz", ".gz.sha256", ".gz.sig", ".sig", ".sha256">>

\* The platform list of @prisma/get-platform: one supported platform among
\* every excluded one.
platforms == <<"freebsd", "darwin", "arm", "linux-nixos", "openbsd", "netbsd">>

\* What a template string makes of the value getFirstExistingCommit returns
\* when it falls off the end of its loop.
undefined == "undefined"

\* getDownloadUrl's extension when the caller passes none.
defaultExtension == ".gz"

baseUrl == "https://binaries.prisma.sh"

getDownloadUrl(channel, version, platform, binaryName, extension) ==
  baseUrl \o "/" \o channel \o "/" \o version \o "/" \o platform \o "/"
    \o binaryName \o extension

\* platforms, unfiltered.
relevantPlatformsUnfiltered == platforms

\* platforms.filter((p) => !excludedPlatforms.includes(p))

relevantPlatforms ==
  SelectSeq(platforms, LAMBDA p : p \notin Range(excludedPlatforms))

(***************************************************************************)
(* The three nested loops, flattened: iteration k (from 0) of the loop     *)
(* body is platform k \div 20, engine (k \div 5) % 4, extension k % 5.     *)
(***************************************************************************)
NumTasks == Len(relevantPlatforms) * Len(engines) * Len(extensions)

\* The extension index taken modulo the number of engines.
ComboRepeating(k) ==
  [platform  |-> relevantPlatforms[(k \div (Len(engines) * Len(extensions))) + 1],
   engine    |-> engines[((k \div Len(extensions)) % Len(engines)) + 1],
   extension |-> extensions[(k % Len(engines)) + 1]]

Combo(k) ==
  [platform  |-> relevantPlatforms[(k \div (Len(engines) * Len(extensions))) + 1],
   engine    |-> engines[((k \div Len(extensions)) % Len(engines)) + 1],
   extension |-> extensions[(k % Len(extensions)) + 1]]

\* The call with the extension left out.
DownloadUrlDefaultExtension(commit, k) ==
  getDownloadUrl("master", commit, Combo(k).platform, Combo(k).engine, defaultExtension)

DownloadUrl(commit, k) ==
  getDownloadUrl("master", commit, Combo(k).platform, Combo(k).engine,
                 Combo(k).extension)

\* getDownloadUrl('master', commit, 'darwin', 'query-engine')
ReferenceUrl(commit) ==
  getDownloadUrl("master", commit, "darwin", "query-engine", defaultExtension)

(***************************************************************************)
(* parseInt(string) of ECMAScript with no radix: leading white space is    *)
(* skipped, then an optional sign, then an optional 0x prefix (radix 16),  *)
(* then the longest run of digits of the radix; no digit gives NaN.        *)
(* A header value is a sequence of one-character strings.                  *)
(***************************************************************************)
Chars == {"0", "1", "9", " ", "-", "a", "x"}

DigitValue(c) ==
  CASE c = "0" -> 0 [] c = "1" -> 1 [] c = "9" -> 9 [] c = "a" -> 10 [] OTHER -> 99

RECURSIVE TrimStart(_)
TrimStart(s) ==
  IF s # <<>> /\ Head(s) = " " THEN TrimStart(Tail(s)) ELSE s

RECURSIVE DigitRun(_, _, _, _)
DigitRun(s, radix, acc, seen) ==
  IF s # <<>> /\ DigitValue(Head(s)) < radix
  THEN DigitRun(Tail(s), radix, acc * radix + DigitValue(Head(s)), TRUE)
  ELSE [nan |-> ~seen, val |-> acc]

NaN == [nan |-> TRUE, val |-> 0]

\* The digits after the sign: "0x" makes the radix 16.
Unsigned(u) ==
  IF Len(u) >= 2 /\ u[1] = "0" /\ u[2] = "x"
  THEN DigitRun(SubSeq(u, 3, Len(u)), 16, 0, FALSE)
  ELSE DigitRun(u, 10, 0, FALSE)

Negated(r) == [nan |-> r.nan, val |-> 0 - r.val]

\* The value after the leading white space: an optional sign, then digits.
Signed(t) ==
  IF t # <<>> /\ Head(t) = "-" THEN Negated(Unsigned(Tail(t))) ELSE Unsigned(t)

parseInt(header) ==
  IF ~header.present THEN NaN ELSE Signed(TrimStart(header.chars))

\* x > 0 of ECMAScript: false when x is NaN.
GreaterThanZero(x) == ~x.nan /\ x.val > 0

(***************************************************************************)
(* What one HEAD request can come to: getProxyAgent throws, fetch rejects, *)
(* or a response with a status and, perhaps, a content-length header.      *)
(***************************************************************************)
Statuses == {200, 201, 299, 300, 404}

HeaderValues ==
  UNION {[1..n -> Chars] : n \in 0..MaxHeaderLen}

Headers ==
  {[present |-> FALSE, chars |-> <<>>]}
    \cup {[present |-> TRUE, chars |-> h] : h \in HeaderValues}

NoHeader == [present |-> FALSE, chars |-> <<>>]

Failure(kind) == [kind |-> kind, status |-> 0, contentLength |-> NoHeader]

Responses ==
  {Failure("proxyThrows"), Failure("fetchRejects")}
    \cup {[kind |-> "response", status |-> s, contentLength |-> h] :
            s \in Statuses, h \in Headers}

(***************************************************************************)
(* urlExists: the result is [raised, value, log]; raised says that the     *)
(* promise rejected, log lists the console.error calls in order.           *)
(***************************************************************************)
StatusOkInclusive(status) == status <= 300

\* res.status < 300
StatusOk(status) == status < 300

\* parseInt(headers['content-length']) > 0
LengthOk(header) == GreaterThanZero(parseInt(header))

\* urlExists without its try/catch.
urlExistsUncaught(res) ==
  IF res.kind # "response"
  THEN [raised |-> TRUE, value |-> FALSE, log |-> <<>>]
  ELSE LET log == IF res.status > 200 THEN <<"response">> ELSE <<>>
       IN  IF LengthOk(res.contentLength)
           THEN [raised |-> FALSE, value |-> StatusOk(res.status), log |-> log]
           ELSE [raised |-> FALSE, value |-> FALSE, log |-> log]

urlExists(res) ==
  IF res.kind # "response"
  THEN [raised |-> FALSE, value |-> FALSE, log |-> <<"error">>]
  ELSE LET log == IF res.status > 200 THEN <<"response">> ELSE <<>>
       IN  IF LengthOk(res.contentLength)
           THEN [raised |-> FALSE, value |-> StatusOk(res.status), log |-> log]
           ELSE [raised |-> FALSE, value |-> FALSE, log |-> log]

(***************************************************************************)
(* The remote: the commit list of the repository and the artifacts the     *)
(* host holds.  The newest `unbuilt` commits of the list hold nothing yet; *)
(* every other commit holds each artifact of the supported platforms but   *)
(* those its `absent` pattern matches ("*" matches every engine or         *)
(* extension, "-" none).  `undefinedBuilt` says whether artifacts lie      *)
(* under the commit name "undefined".  A URL the host does not hold is     *)
(* answered by `bad`.                                                      *)
(***************************************************************************)
CommitId(i) == "c" \o ToString(i)

CommitList(n) == [i \in 1..n |-> CommitId(i)]

Patterns ==
  {[engine |-> "-", extension |-> "-"]}
    \cup {[engine |-> e, extension |-> x] :
            e \in Range(engines) \cup {"*"}, x \in Range(extensions) \cup {"*"}}

Matches(pattern, engine, extension) ==
  /\ pattern.engine \in {"*", engine}
  /\ pattern.extension \in {"*", extension}

GoodAnswer ==
  [kind |-> "response", status |-> 200,
   contentLength |-> [present |-> TRUE, chars |-> <<"1", "9">>]]

BadAnswers ==
  {Failure("fetchRejects"),
   [kind |-> "response", status |-> 404,
    contentLength |-> [present |-> TRUE, chars |-> <<"9">>]]}

supportedPlatforms == Range(platforms) \ Range(excludedPlatforms)

\* The commit list is empty or of MaxCommits commits.  What lies under
\* "undefined" can matter only when no commit of the list is built.
RemoteStates ==
  {r \in [commits : {CommitList(0), CommitList(MaxCommits)}, unbuilt : 0..MaxCommits,
          undefinedBuilt : BOOLEAN, absent : Patterns, bad : BadAnswers] :
     /\ r.unbuilt <= Len(r.commits)
     /\ r.undefinedBuilt => r.unbuilt = Len(r.commits)}

BuiltCommits(r) ==
  {r.commits[i] : i \in (r.unbuilt + 1)..Len(r.commits)}
    \cup (IF r.undefinedBuilt THEN {undefined} ELSE {})

\* Every artifact a host can hold for the commits of the model.
Artifacts ==
  {[url |-> getDownloadUrl("master", c, p, e, x), commit |-> c, engine |-> e,
    extension |-> x] :
     c \in {CommitId(i) : i \in 1..MaxCommits} \cup {undefined},
     p \in supportedPlatforms, e \in Range(engines), x \in Range(extensions)}

\* The artifacts by URL, as one table.
RECURSIVE ByUrl(_)
ByUrl(as) ==
  IF as = {} THEN <<>>
  ELSE LET a == CHOOSE a \in as : TRUE
       IN  (a.url :> a) @@ ByUrl(as \ {a})

ArtifactAt == ByUrl(Artifacts)

Holds(r, url) ==
  /\ url \in DOMAIN ArtifactAt
  /\ ArtifactAt[url].commit \in BuiltCommits(r)
  /\ ~Matches(r.absent, ArtifactAt[url].engine, ArtifactAt[url].extension)

(***************************************************************************)
(* Doctor.parse, lines 74-129: the models of the local schema are compared *)
(* with those the introspection of the database gave.  A model is          *)
(* [name, dbName, fields], a field [name, dbNames, type, isList].          *)
(***************************************************************************)
null == "null"

\* a ?? b
Coalesce(a, b) == IF a = null THEN b ELSE a

\* (m) => m.dbName ?? m.name
ModelKey(m) == Coalesce(m.dbName, m.name)

\* f.dbNames && f.dbNames.length > 0 ? f.dbNames[0] : f.name
getFieldName(f) == IF Len(f.dbNames) > 0 THEN f.dbNames[1] ELSE f.name

\* keyBy(collection, iteratee), with keys[i] the iteratee's value for
\* collection[i]: the object with one property per key, an element written
\* later replacing an earlier one of the same key.
keyBy(collection, keys) ==
  [k \in Range(keys) |->
     collection[CHOOSE i \in DOMAIN collection :
                  /\ keys[i] = k
                  /\ \A j \in DOMAIN collection : keys[j] = k => j <= i]]

pickTypeOnly(f) == [type |-> f.type]

\* pick(f, ['type', 'isList'])
pick(f) == [type |-> f.type, isList |-> f.isList]

\* Lines 89-113: what one local model lacks in the database.
ModelDrift(localModel, remoteByKey) ==
  IF ModelKey(localModel) \notin DOMAIN remoteByKey
  THEN [model |-> localModel, missingModel |-> TRUE,
        missingFields |-> <<>>, incorrectFieldType |-> <<>>]
  ELSE LET remoteFields == keyBy(remoteByKey[ModelKey(localModel)].fields,
                                 [i \in DOMAIN remoteByKey[ModelKey(localModel)].fields |->
                                    getFieldName(remoteByKey[ModelKey(localModel)].fields[i])])
           known(f)     == getFieldName(f) \in DOMAIN remoteFields
           wrong        == SelectSeq(localModel.fields,
                             LAMBDA f : known(f) /\ pick(f) # pick(remoteFields[getFieldName(f)]))
       IN  [model |-> localModel, missingModel |-> FALSE,
            missingFields |-> SelectSeq(localModel.fields, LAMBDA f : ~known(f)),
            incorrectFieldType |->
              [i \in DOMAIN wrong |->
                 [localField |-> wrong[i],
                  remoteField |-> remoteFields[getFieldName(wrong[i])]]]]

\* printField
printField(f) == f.name \o (IF f.isList THEN "[]" ELSE "")

\* The value null in the place of a message.
NoMessage == [name |-> null, lines |-> <<>>]

Line(text, field, local, remote) ==
  [text |-> text, field |-> field, local |-> local, remote |-> remote]

\* Lines 133-168: null, or the block of the model: its name and one line
\* per finding.
printModelMessage(d) ==
  IF ~d.missingModel /\ d.missingFields = <<>> /\ d.incorrectFieldType = <<>>
  THEN NoMessage
  ELSE [name |-> d.model.name,
        lines |->
          (IF d.missingModel
           THEN <<Line("Model is missing in database", "", "", "")>>
           ELSE <<>>)
            \o [i \in DOMAIN d.missingFields |->
                  Line("Field is missing in database", d.missingFields[i].name, "", "")]
            \o [i \in DOMAIN d.incorrectFieldType |->
                  Line("Field has type locally, but remote",
                       d.incorrectFieldType[i].localField.name,
                       d.incorrectFieldType[i].localField.type
                         \o printField(d.incorrectFieldType[i].localField),
                       printField(d.incorrectFieldType[i].remoteField))]]

\* Lines 87-123: the blocks of the models that lack something, in the order
\* of the local models.  `if (msg)` lets every block pass: none is empty.
Messages(local, remote) ==
  LET remoteByKey == keyBy(remote, [i \in DOMAIN remote |-> ModelKey(remote[i])])
      all == [i \in DOMAIN local |-> printModelMessage(ModelDrift(local[i], remoteByKey))]
  IN  SelectSeq(all, LAMBDA msg : msg # NoMessage)

NotParsed == [kind |-> "not parsed", messages |-> <<>>]

VARIABLES
  remote,         \* the remote's commit list and what the host holds
  pc,             \* getLatestTag's position
  listResult,     \* lines 9-12: "none", "ok", or the error the request raised
  commits,        \* line 12
  scanNext,       \* getFirstExistingCommit: index of the next candidate
  scanPending,    \* getFirstExistingCommit: candidates whose probe is in flight
  scanned,        \* the reference probes completed so far, in order
  commit,         \* line 13
  loopK,          \* lines 26-55: iterations of the loop body run so far
  promises,       \* line 15: one entry per queue.add, with the times its task ran
  queue,          \* p-queue: tasks waiting, in the order added
  pending,        \* p-queue: tasks running
  outcome,        \* what getLatestTag returned or threw
  res,            \* SpecProbe: the response handed to urlExists
  probeResult,    \* SpecProbe: what urlExists made of it
  localModels,    \* Doctor.parse: localDmmf.datamodel.models
  remoteModels,   \* Doctor.parse: remoteDmmf.datamodel.models
  doctorResult    \* Doctor.parse: what it returned or threw

vars ==
  <<remote, pc, listResult, commits, scanNext, scanPending, scanned, commit,
    loopK, promises, queue, pending, outcome, res, probeResult,
    localModels, remoteModels, doctorResult>>

scanVars == <<scanNext, scanPending, scanned>>

poolVars == <<loopK, promises, queue, pending>>

probeVars == <<res, probeResult>>

doctorVars == <<localModels, remoteModels, doctorResult>>

AnswerFor(url) == IF Holds(remote, url) THEN GoodAnswer ELSE remote.bad

NoOutcome == [kind |-> "none", commit |-> "", urls |-> <<>>]

Returned(c) == [kind |-> "returned", commit |-> c, urls |-> <<>>]

MissingAssets(urls) == [kind |-> "missingAssets", commit |-> "", urls |-> urls]

Rejected(why) == [kind |-> why, commit |-> "", urls |-> <<>>]

NotCalled == [raised |-> FALSE, value |-> FALSE, log |-> <<"not called">>]

Init ==
  /\ remote \in RemoteStates
  /\ pc = "fetch"
  /\ listResult = "none"
  /\ commits = <<>>
  /\ scanNext = 1
  /\ scanPending = {}
  /\ scanned = <<>>
  /\ commit = ""
  /\ loopK = 0
  /\ promises = <<>>
  /\ queue = <<>>
  /\ pending = {}
  /\ outcome = NoOutcome
  /\ res = GoodAnswer
  /\ probeResult = NotCalled
  /\ localModels = <<>>
  /\ remoteModels = <<>>
  /\ doctorResult = NotParsed

(***************************************************************************)
(* Lines 8-12: the commits request.  It resolves to the remote's list, or  *)
(* it rejects (the request, res.json() or result.map throws) and the       *)
(* rejection leaves getLatestTag as it is.                                 *)
(***************************************************************************)
\* What can go wrong: the request rejects, res.json() rejects, or the body
\* is no array and result.map throws.
ListErrors == {"requestRejected", "bodyNotJson", "mapNotAFunction"}

FetchCommits ==
  /\ pc = "fetch"
  /\ listResult' = "ok"
  /\ commits' = remote.commits
  /\ pc' = "scan"
  /\ UNCHANGED <<remote, scanVars, commit, poolVars, outcome, probeVars, doctorVars>>

\* The error caught and the call going on with no candidates.
FetchCommitsFailsSwallowed ==
  /\ pc = "fetch"
  /\ \E e \in ListErrors : listResult' = e
  /\ commits' = <<>>
  /\ pc' = "scan"
  /\ UNCHANGED <<remote, scanVars, commit, poolVars, outcome, probeVars, doctorVars>>

FetchCommitsFails ==
  /\ pc = "fetch"
  /\ \E e \in ListErrors :
       /\ listResult' = e
       /\ outcome' = Rejected(e)
  /\ pc' = "done"
  /\ UNCHANGED <<remote, commits, scanVars, commit, poolVars, probeVars, doctorVars>>

(***************************************************************************)
(* Lines 75-84: getFirstExistingCommit.  `await urlExists(...)` keeps the  *)
(* loop from going on while a probe is in flight.                          *)
(***************************************************************************)
\* The loop without its await.
ScanAwaitsNothing(inFlight) == TRUE

\* await urlExists(...)
ScanAwaits(inFlight) == inFlight = {}

ScanReturnsNever(exists) == FALSE

\* if (exists) { return commit }
ScanReturns(exists) == exists

ScanProbeStart ==
  /\ pc = "scan"
  /\ ScanAwaits(scanPending)
  /\ scanNext <= Len(commits)
  /\ scanPending' = scanPending \cup {scanNext}
  /\ scanNext' = scanNext + 1
  /\ UNCHANGED <<remote, listResult, pc, commits, scanned, commit, poolVars, outcome, probeVars, doctorVars>>

ScanProbeComplete(i) ==
  /\ pc = "scan"
  /\ i \in scanPending
  /\ \E url \in {ReferenceUrl(commits[i])} :
     \E r \in {urlExists(AnswerFor(url))} :
         /\ scanPending' = scanPending \ {i}
         /\ scanned' = Append(scanned, [commit |-> commits[i], url |-> url,
                                         raised |-> r.raised, exists |-> r.value])
         /\ IF r.raised
            THEN /\ outcome' = Rejected("probeRaised")
                 /\ pc' = "done"
                 /\ UNCHANGED commit
            ELSE IF ScanReturns(r.value)
            THEN /\ commit' = commits[i]
                 /\ pc' = "enqueue"
                 /\ UNCHANGED outcome
            ELSE UNCHANGED <<commit, pc, outcome>>
  /\ UNCHANGED <<remote, listResult, commits, scanNext, poolVars, probeVars, doctorVars>>

\* The loop ends without a return: the function's value is undefined.
ScanExhausted ==
  /\ pc = "scan"
  /\ ScanAwaits(scanPending)
  /\ scanNext > Len(commits)
  /\ commit' = undefined
  /\ pc' = "enqueue"
  /\ UNCHANGED <<remote, listResult, commits, scanVars, poolVars, outcome, probeVars, doctorVars>>

(***************************************************************************)
(* p-queue.  add() appends the task and tries to start one; a task that    *)
(* settles gives its slot back and tries to start one.  A task starts only *)
(* while fewer than `concurrency` are running.                             *)
(***************************************************************************)
CanStartInclusive(pendingCount) == pendingCount <= concurrency

\* new PQueue({ concurrency: 30 })
CanStart(pendingCount) == pendingCount < concurrency

\* A waiting task is started only when nothing runs.
TryToStartAnotherWhenIdle(q, running) ==
  IF q # <<>> /\ running = {}
  THEN [queue |-> Tail(q), pending |-> running \cup {Head(q)}, started |-> <<Head(q)>>]
  ELSE [queue |-> q, pending |-> running, started |-> <<>>]

\* _tryToStartAnother: [queue, pending, started] after it
TryToStartAnother(q, running) ==
  IF q # <<>> /\ CanStart(Cardinality(running))
  THEN [queue |-> Tail(q), pending |-> running \cup {Head(q)}, started |-> <<Head(q)>>]
  ELSE [queue |-> q, pending |-> running, started |-> <<>>]

ReleaseIfExists(running, i, exists) == IF exists THEN running \ {i} ELSE running

\* A task that settles gives its slot back, whatever it resolved to.
Release(running, i, exists) == running \ {i}

\* The tasks of `started` have run once more: each calls urlExists(downloadUrl).
Ran(ps, started) ==
  [i \in DOMAIN ps |->
     IF i \in Range(started) THEN [ps[i] EXCEPT !.runs = @ + 1] ELSE ps[i]]

\* Lines 40-52, one iteration of the innermost loop body.
QueueAdd ==
  /\ pc = "enqueue"
  /\ loopK < NumTasks
  /\ LET downloadUrl == DownloadUrl(commit, loopK)
         task        == Len(promises) + 1
         next        == TryToStartAnother(Append(queue, task), pending)
     IN  /\ promises' = Ran(Append(promises, [downloadUrl |-> downloadUrl, runs |-> 0,
                                               settled |-> "no", exists |-> FALSE]),
                             next.started)
         /\ queue' = next.queue
         /\ pending' = next.pending
  /\ loopK' = loopK + 1
  /\ UNCHANGED <<remote, listResult, pc, commits, scanVars, commit, outcome, probeVars, doctorVars>>

\* The loops are over: getLatestTag reaches `await Promise.all(promises)`.
AwaitAll ==
  /\ pc = "enqueue"
  /\ loopK = NumTasks
  /\ pc' = "join"
  /\ UNCHANGED <<remote, listResult, commits, scanVars, commit, poolVars, outcome, probeVars, doctorVars>>

\* Lines 48-51: the task's probe settles; the queue goes on whatever
\* getLatestTag has come to.  A rejected task rejects Promise.all at once.
ProbeComplete(i) ==
  /\ pc \in {"join", "done"}
  /\ i \in pending
  /\ \E r \in {urlExists(AnswerFor(promises[i].downloadUrl))} :
     \E next \in {TryToStartAnother(queue, Release(pending, i, r.value))} :
         /\ promises' = Ran([promises EXCEPT
                                 ![i].settled = IF r.raised THEN "rejected" ELSE "resolved",
                                 ![i].exists = r.value],
                             next.started)
         /\ queue' = next.queue
         /\ pending' = next.pending
         /\ IF r.raised /\ pc = "join"
            THEN /\ outcome' = Rejected("probeRaised")
                 /\ pc' = "done"
            ELSE UNCHANGED <<pc, outcome>>
  /\ UNCHANGED <<remote, listResult, commits, scanVars, commit, loopK, probeVars, doctorVars>>

(***************************************************************************)
(* Lines 57-72: Promise.all resolves once every promise has resolved; then *)
(* the outcomes are filtered and getLatestTag throws or returns.           *)
(***************************************************************************)
JoinReadyOnFirstMissing(ps) ==
  \/ \A i \in DOMAIN ps : ps[i].settled = "resolved"
  \/ \E i \in DOMAIN ps : ps[i].settled = "resolved" /\ ~ps[i].exists

\* Promise.race in the place of Promise.all.
JoinReadyOnAny(ps) == \E i \in DOMAIN ps : ps[i].settled = "resolved"

JoinReady(ps) == \A i \in DOMAIN ps : ps[i].settled = "resolved"

\* exist.filter((e) => !e.exists).map((m) => m.downloadUrl)
MissingUrlsFirstOnly(exist) ==
  LET all == SelectSeq(exist, LAMBDA e : ~e.exists)
  IN  SubSeq([i \in DOMAIN all |-> all[i].downloadUrl], 1, 1)

MissingUrlsReversed(exist) ==
  LET missing == SelectSeq(exist, LAMBDA e : ~e.exists)
  IN  [i \in DOMAIN missing |-> missing[Len(missing) + 1 - i].downloadUrl]

MissingUrls(exist) ==
  LET missing == SelectSeq(exist, LAMBDA e : ~e.exists)
  IN  [i \in DOMAIN missing |-> missing[i].downloadUrl]

ThrowsNever(missingCount) == FALSE

\* if (missing.length > 0)
Throws(missingCount) == missingCount > 0

\* With missing assets the scan is taken up again at the next candidate.
AggregateWithFallback ==
  /\ pc = "join"
  /\ JoinReady(promises)
  /\ IF \E i \in DOMAIN promises : ~promises[i].exists
     THEN /\ pc' = "scan"
          /\ promises' = <<>>
          /\ loopK' = 0
          /\ UNCHANGED <<outcome, queue, pending>>
     ELSE /\ outcome' = Returned(commit)
          /\ pc' = "done"
          /\ UNCHANGED poolVars
  /\ UNCHANGED <<remote, listResult, commits, scanVars, commit, probeVars, doctorVars>>

Aggregate ==
  /\ pc = "join"
  /\ JoinReady(promises)
  /\ LET exist == [i \in DOMAIN promises |->
                     [downloadUrl |-> promises[i].downloadUrl,
                      exists |-> promises[i].exists]]
         missing == MissingUrls(exist)
     IN  outcome' = IF Throws(Len(missing))
                    THEN MissingAssets(missing)
                    ELSE Returned(commit)
  /\ pc' = "done"
  /\ UNCHANGED <<remote, listResult, commits, scanVars, commit, poolVars, probeVars, doctorVars>>

Next ==
  \/ FetchCommits
  \/ FetchCommitsFails
  \/ ScanProbeStart
  \/ \E i \in scanPending : ScanProbeComplete(i)
  \/ ScanExhausted
  \/ QueueAdd
  \/ AwaitAll
  \/ \E i \in pending : ProbeComplete(i)
  \/ Aggregate

Spec == Init /\ [][Next]_vars

\* The event loop runs the code that can run, and a probe that has started
\* completes.  Nothing is assumed of the commits request.
Progress == ScanProbeStart \/ ScanExhausted \/ QueueAdd \/ AwaitAll \/ Aggregate

Fairness ==
  /\ WF_vars(Progress)
  /\ WF_vars(\E i \in scanPending : ScanProbeComplete(i))
  /\ WF_vars(\E i \in pending : ProbeComplete(i))

\* The runs whose progress is followed: every commit list and every kind of
\* bad answer, with nothing absent, one extension absent, or all absent.
LiveRemotes ==
  {r \in RemoteStates :
     r.absent \in {[engine |-> "-", extension |-> "-"],
                   [engine |-> "*", extension |-> ".sig"],
                   [engine |-> "*", extension |-> "*"]}}

InitLive == Init /\ remote \in LiveRemotes

SpecLive == InitLive /\ [][Next]_vars /\ Fairness

(***************************************************************************)
(* urlExists on its own: one call on each response of Responses.           *)
(***************************************************************************)
InitProbe ==
  /\ res \in Responses
  /\ probeResult = NotCalled
  /\ localModels = <<>>
  /\ remoteModels = <<>>
  /\ doctorResult = NotParsed
  /\ remote = CHOOSE r \in RemoteStates : TRUE
  /\ pc = "probe"
  /\ listResult = "none"
  /\ commits = <<>>
  /\ scanNext = 1
  /\ scanPending = {}
  /\ scanned = <<>>
  /\ commit = ""
  /\ loopK = 0
  /\ promises = <<>>
  /\ queue = <<>>
  /\ pending = {}
  /\ outcome = NoOutcome

CallUrlExists ==
  /\ pc = "probe"
  /\ probeResult = NotCalled
  /\ probeResult' = urlExists(res)
  /\ UNCHANGED <<remote, listResult, pc, commits, scanVars, commit, poolVars, outcome, res, doctorVars>>

NextProbe == CallUrlExists

SpecProbe == InitProbe /\ [][NextProbe]_vars

(***************************************************************************)
(* Doctor.parse on the schemas of the model.  A local schema holds up to   *)
(* MaxModels models of different names, each with none, one or two of the  *)
(* local fields; field "b" is mapped to the column "c", model "M" may be   *)
(* mapped to the table "t".  The database holds at most one table for "M"  *)
(* (under the name "M" or "t", the latter also as the dbName of a model    *)
(* "Z"), with none or one column, or column "a" and one of another name,   *)
(* and perhaps the table "N".                                              *)
(***************************************************************************)
Field(name, dbNames, type, isList) ==
  [name |-> name, dbNames |-> dbNames, type |-> type, isList |-> isList]

Model(name, dbName, fields) == [name |-> name, dbName |-> dbName, fields |-> fields]

LocalFields == {Field("a", <<>>, "Int", FALSE), Field("b", <<"c">>, "Int", FALSE)}

LocalFieldLists ==
  {<<>>} \cup {<<f>> : f \in LocalFields}
    \cup {p \in LocalFields \X LocalFields : p[1].name # p[2].name}

LocalModels ==
  {Model(n[1], n[2], fs) :
     n \in {<<"M", null>>, <<"M", "t">>, <<"N", null>>, <<"O", null>>},
     fs \in LocalFieldLists}

LocalSchemas ==
  {l \in UNION {[1..n -> LocalModels] : n \in 0..MaxModels} :
     \A i, j \in DOMAIN l : i # j => l[i].name # l[j].name}

RemoteFields ==
  {Field("a", <<>>, "Int", FALSE), Field("a", <<>>, "String", FALSE),
   Field("a", <<>>, "Int", TRUE), Field("b", <<>>, "Int", FALSE),
   Field("c", <<>>, "Int", FALSE), Field("x", <<"c">>, "Int", FALSE)}

RemoteFieldLists ==
  {<<>>} \cup {<<f>> : f \in RemoteFields}
    \cup {p \in RemoteFields \X RemoteFields :
            getFieldName(p[1]) = "a" /\ getFieldName(p[2]) # "a"}

RemoteN == Model("N", null, <<Field("a", <<>>, "Int", FALSE), Field("c", <<>>, "Int", FALSE)>>)

RemoteSchemas ==
  LET tables == {Model(n[1], n[2], fs) :
                   n \in {<<"M", null>>, <<"t", null>>, <<"Z", "t">>},
                   fs \in RemoteFieldLists}
  IN  {<<>>, <<RemoteN>>} \cup {<<m>> : m \in tables} \cup {<<m, RemoteN>> : m \in tables}

InitDoctor ==
  /\ localModels \in LocalSchemas
  /\ remoteModels \in RemoteSchemas
  /\ doctorResult = NotParsed
  /\ pc = "doctor"
  /\ remote = CHOOSE r \in RemoteStates : TRUE
  /\ listResult = "none"
  /\ commits = <<>>
  /\ scanNext = 1
  /\ scanPending = {}
  /\ scanned = <<>>
  /\ commit = ""
  /\ loopK = 0
  /\ promises = <<>>
  /\ queue = <<>>
  /\ pending = {}
  /\ outcome = NoOutcome
  /\ res = GoodAnswer
  /\ probeResult = NotCalled

\* Lines 74-129.
Parse ==
  /\ pc = "doctor"
  /\ doctorResult = NotParsed
  /\ LET messages == Messages(localModels, remoteModels)
     IN  doctorResult' = IF Len(messages) > 0
                         THEN [kind |-> "thrown", messages |-> messages]
                         ELSE [kind |-> "Everything in sync", messages |-> <<>>]
  /\ UNCHANGED <<remote, listResult, pc, commits, scanVars, commit, poolVars, outcome,
                 probeVars, localModels, remoteModels>>

NextDoctor == Parse

SpecDoctor == InitDoctor /\ [][NextDoctor]_vars

(***************************************************************************)
(* Properties.                                                             *)
(***************************************************************************)
\* The verification probes in flight: started and not yet settled.
InFlight == {i \in DOMAIN promises : promises[i].runs > 0 /\ promises[i].settled = "no"}

\* C1: at every moment of the verification phase the number of probes that
\* have started and not completed is at most the limit given to the queue,
\* whatever the order of starts and completions, and over all tasks at once.
C1_ConcurrencyBound ==
  /\ Cardinality(InFlight) <= concurrency
  /\ InFlight = pending

\* More tasks than the limit: the queue is full, tasks wait, and some have
\* already completed.
C1_Witness ==
  /\ NumTasks > concurrency
  /\ Cardinality(InFlight) = concurrency
  /\ queue # <<>>
  /\ \E i \in DOMAIN promises : promises[i].settled = "resolved"

\* getLatestTag came to the end of its body: it returned the commit or threw
\* the missing-assets error.
Delivered == outcome.kind \in {"returned", "missingAssets"}

\* C2: getLatestTag delivers its outcome only after every enqueued probe has
\* completed: with an outcome delivered no task waits or runs, and every
\* task of the matrix has settled.
C2_JoinBarrier ==
  /\ outcome.kind # "none" =>
       /\ pending = {}
       /\ queue = <<>>
       /\ \A i \in DOMAIN promises : promises[i].settled # "no"
  /\ Delivered => Len(promises) = NumTasks

\* The first probe of the matrix reported non-existence, and the outcome
\* came only with the last of the tasks settled.
C2_Witness ==
  /\ outcome.kind = "missingAssets"
  /\ promises[1].settled = "resolved" /\ ~promises[1].exists
  /\ Len(promises) = NumTasks /\ NumTasks > 1

\* What probing combination k of the matrix of the resolved commit gives on
\* the remote of this run.
ProbesAbsent(k) == ~urlExists(AnswerFor(DownloadUrl(commit, k))).value

AbsentCombos == {k \in 0..(NumTasks - 1) : ProbesAbsent(k)}

\* C3: when some combination of the matrix probes as non-existent,
\* getLatestTag throws, and the URLs of the error are exactly those of the
\* combinations that probed false, each once; with one absent combination
\* the list is the one URL getDownloadUrl('master', commit, P, B, E).
C3_MissingListExact ==
  (Delivered /\ AbsentCombos # {}) =>
    /\ outcome.kind = "missingAssets"
    /\ Range(outcome.urls) = {DownloadUrl(commit, k) : k \in AbsentCombos}
    /\ Len(outcome.urls) = Cardinality(AbsentCombos)
    /\ \A k \in AbsentCombos :
         AbsentCombos = {k} =>
           outcome.urls = <<getDownloadUrl("master", commit, Combo(k).platform,
                                           Combo(k).engine, Combo(k).extension)>>

\* One combination is absent, and the error lists its URL alone.
C3_Witness ==
  /\ outcome.kind = "missingAssets"
  /\ Cardinality(AbsentCombos) = 1
  /\ Len(outcome.urls) = 1
  /\ commit \in Range(commits)

\* The value getFirstExistingCommit returned, read off the probes it made.
ScannerChoice ==
  IF \E i \in DOMAIN scanned : scanned[i].exists
  THEN scanned[CHOOSE i \in DOMAIN scanned : scanned[i].exists].commit
  ELSE undefined

\* C4: getLatestTag returns exactly when every probe of the matrix returned
\* true, the value returned is the one the scanner returned, and a call
\* either returns or throws the list of missing URLs, never both.
C4_SuccessIffAllExist ==
  Delivered =>
    /\ outcome.kind = "returned" <=>
         /\ Len(promises) = NumTasks
         /\ \A i \in DOMAIN promises : promises[i].settled = "resolved" /\ promises[i].exists
    /\ outcome.kind = "returned" => outcome.commit = ScannerChoice /\ outcome.urls = <<>>
    /\ outcome.kind = "missingAssets" => outcome.commit = "" /\ outcome.urls # <<>>

\* Every artifact of the second candidate exists: it is returned.
C4_Witness ==
  /\ outcome.kind = "returned"
  /\ Len(commits) >= 2 /\ outcome.commit = commits[2]
  /\ AbsentCombos = {}

\* C5: getFirstExistingCommit probes the candidates in the order given, one
\* probe at a time, and returns the first whose reference artifact exists:
\* the probes made are those of a prefix of the list, all but the last of
\* them false, and none is made after one that succeeded.
C5_SequentialScan ==
  /\ Cardinality(scanPending) <= 1
  /\ Len(scanned) <= Len(commits)
  /\ \A i \in DOMAIN scanned :
       /\ scanned[i].commit = commits[i]
       /\ scanned[i].url = getDownloadUrl("master", commits[i], "darwin", "query-engine",
                                          defaultExtension)
       /\ i < Len(scanned) => ~scanned[i].exists
  /\ scanPending \subseteq {Len(scanned) + 1}
  /\ (scanned # <<>> /\ scanned[Len(scanned)].exists) =>
       /\ scanPending = {}
       /\ pc # "scan"
       /\ commit = scanned[Len(scanned)].commit
  /\ (pc \in {"enqueue", "join"} \/ Delivered) =>
       \/ scanned # <<>> /\ scanned[Len(scanned)].exists
       \/ Len(scanned) = Len(commits) /\ commit = undefined

\* The first candidate's reference artifact is absent, the second's exists:
\* the second is returned.
C5_Witness ==
  /\ Len(scanned) = 2
  /\ ~scanned[1].exists /\ scanned[2].exists
  /\ commit = commits[2]
  /\ pc = "enqueue"

\* The scan went through every candidate and none was found.
Exhausted ==
  /\ pc \notin {"fetch", "scan"}
  /\ outcome.kind \notin ListErrors \cup {"probeRaised"}
  /\ Len(scanned) = Len(commits)
  /\ \A i \in DOMAIN scanned : ~scanned[i].exists

\* C6: when the candidates are exhausted with no reference probe
\* succeeding (the empty list included), the resolution fails with
\* NoValidCommitFound, and no verification probe is issued afterwards.
C6_ExhaustionFails ==
  Exhausted =>
    /\ \A i \in DOMAIN promises : promises[i].runs = 0
    /\ pending = {}
    /\ outcome.kind \in {"none", "noValidCommitFound"}
    /\ pc = "done" => outcome.kind = "noValidCommitFound"

\* Every URL of an excluded platform, for the commit names of the model.
ExcludedUrls ==
  {getDownloadUrl("master", c, p, e, x) :
     c \in {CommitId(i) : i \in 1..MaxCommits} \cup {undefined},
     p \in Range(excludedPlatforms), e \in Range(engines), x \in Range(extensions)}

\* C7: no URL of an excluded platform is built for the matrix, probed, or
\* listed as missing, though the remote holds none of them.
C7_ExclusionRespected ==
  /\ \A i \in DOMAIN promises : promises[i].downloadUrl \notin ExcludedUrls
  /\ \A i \in DOMAIN scanned : scanned[i].url \notin ExcludedUrls
  /\ \A i \in DOMAIN outcome.urls : outcome.urls[i] \notin ExcludedUrls
  /\ loopK <= Cardinality(Range(platforms) \ Range(excludedPlatforms))
                * Len(engines) * Len(extensions)

\* The platform list holds excluded platforms whose artifacts are absent,
\* and the call succeeds.
C7_Witness ==
  /\ outcome.kind = "returned"
  /\ Range(platforms) \cap Range(excludedPlatforms) # {}
  /\ \A u \in ExcludedUrls : ~Holds(remote, u)

\* C8: for a response, urlExists is true exactly when the content-length
\* header parses to a number above zero and the status is below 300; a
\* status below 300 with a zero, missing or unparsable content-length gives
\* false, and so does a status of 300 or more with a positive one.
C8_ContentLengthAndStatus ==
  (probeResult # NotCalled /\ res.kind = "response") =>
    LET n == parseInt(res.contentLength)
    IN  /\ probeResult.value <=> (~n.nan /\ n.val > 0 /\ res.status < 300)
        /\ ~probeResult.raised
        /\ (res.status < 300 /\ (n.nan \/ n.val <= 0)) => ~probeResult.value
        /\ (res.status >= 300 /\ ~n.nan /\ n.val > 0) => ~probeResult.value
        /\ (~res.contentLength.present
              \/ res.contentLength.chars \in {<<>>, <<"0">>, <<"a">>, <<"x">>, <<"-", "1">>,
                                              <<" ">>, <<"0", "0">>, <<"a", "1">>})
             => ~probeResult.value
        /\ (res.contentLength.present
              /\ res.contentLength.chars \in {<<"1">>, <<"9">>, <<"1", "9">>, <<" ", "1">>,
                                              <<"1", "a">>, <<"0", "9">>})
             => (probeResult.value <=> res.status \in {200, 201, 299})

\* A status just below 300 with a positive content-length: true.
C8_Witness ==
  /\ probeResult # NotCalled
  /\ res.kind = "response" /\ res.status = 299
  /\ res.contentLength.present /\ res.contentLength.chars = <<"1", "9">>
  /\ probeResult.value

\* urlExists on the answers of the remote and on a request that could not be
\* built: it never rejects, and a failed request gives false.
UrlExistsNeverRaises ==
  \A r \in {GoodAnswer, Failure("proxyThrows")} \cup BadAnswers :
    /\ ~urlExists(r).raised
    /\ r.kind # "response" => ~urlExists(r).value

\* C9: urlExists never raises: a request that fails makes it return false,
\* so a failing probe gives exists = false for its own URL, the scan goes
\* on, and the join is never rejected while other probes are running.
C9_ProbeNeverRaises ==
  /\ UrlExistsNeverRaises
  /\ outcome.kind # "probeRaised"
  /\ \A i \in DOMAIN scanned :
       /\ ~scanned[i].raised
       /\ AnswerFor(scanned[i].url).kind # "response" => ~scanned[i].exists
  /\ \A i \in DOMAIN promises :
       /\ promises[i].settled # "rejected"
       /\ (promises[i].settled = "resolved"
             /\ AnswerFor(promises[i].downloadUrl).kind # "response") => ~promises[i].exists
  /\ outcome.kind # "none" => pending = {}

\* The probe of the first candidate and one probe of the matrix failed in
\* transport; the scan went on to the second candidate, the join waited for
\* every task, and the error lists the one URL.
C9_Witness ==
  /\ remote.bad.kind = "fetchRejects"
  /\ Len(scanned) = 2 /\ ~scanned[1].exists
  /\ outcome.kind = "missingAssets" /\ Len(outcome.urls) = 1
  /\ \A i \in DOMAIN promises : promises[i].settled = "resolved"

\* C10: the tasks are the cross-product of the supported platforms, the 4
\* engines and the 5 extensions for the resolved commit: when the join is
\* over each combination has been probed once, none left out and none
\* twice, and the outcomes number the product of the three sizes.
C10_MatrixComplete ==
  Delivered =>
    /\ Len(promises) = Cardinality(supportedPlatforms) * 4 * 5
    /\ \A i \in DOMAIN promises : promises[i].runs = 1 /\ promises[i].settled = "resolved"
    /\ \A p \in supportedPlatforms, e \in Range(engines), x \in Range(extensions) :
         Cardinality({i \in DOMAIN promises :
                        promises[i].downloadUrl = getDownloadUrl("master", commit, p, e, x)}) = 1

\* The join is over with the 20 outcomes of the one supported platform.
C10_Witness ==
  /\ Delivered
  /\ Len(promises) = 20
  /\ Len(engines) = 4 /\ Len(extensions) = 5
  /\ \A i \in DOMAIN promises : promises[i].runs = 1

\* C11: when the commit list cannot be retrieved (the request rejects or its
\* body is no list of commits), getLatestTag fails with that very error, and
\* no reference probe and no verification probe is issued in the run.
C11_ListFailurePropagates ==
  listResult \in ListErrors =>
    /\ pc = "done"
    /\ outcome = [kind |-> listResult, commit |-> "", urls |-> <<>>]
    /\ commits = <<>> /\ scanned = <<>> /\ scanPending = {} /\ scanNext = 1
    /\ promises = <<>> /\ pending = {} /\ queue = <<>> /\ loopK = 0

\* The body was no array: the call ended with that error and nothing probed.
C11_Witness ==
  /\ listResult = "mapNotAFunction"
  /\ outcome.kind = "mapNotAFunction"
  /\ pc = "done" /\ scanned = <<>> /\ promises = <<>>

\* The combinations of the matrix whose URL, for the resolved commit, is url.
CombosOf(url) ==
  {c \in supportedPlatforms \X Range(engines) \X Range(extensions) :
     getDownloadUrl("master", commit, c[1], c[2], c[3]) = url}

\* C12: within a run no two distinct combinations of the matrix give the
\* same URL: the URL of the task enqueued last differs from the URL of every
\* earlier task and is the URL of exactly one combination (tasks are only
\* ever appended, so this holds of every pair of tasks), and every entry of
\* the missing list is the URL of exactly one combination.
C12_UrlsInjective ==
  /\ promises # <<>> =>
       /\ \A i \in 1..(Len(promises) - 1) :
            promises[i].downloadUrl # promises[Len(promises)].downloadUrl
       /\ Cardinality(CombosOf(promises[Len(promises)].downloadUrl)) = 1
  /\ \A i \in DOMAIN outcome.urls : Cardinality(CombosOf(outcome.urls[i])) = 1

\* Several artifacts are missing and the error lists as many distinct URLs.
C12_Witness ==
  /\ outcome.kind = "missingAssets"
  /\ Len(outcome.urls) > 1
  /\ Cardinality(Range(outcome.urls)) = Len(outcome.urls)
  /\ Len(promises) = NumTasks

\* Every task added so far has run once and has settled, and the queue is idle.
AllTasksDone ==
  /\ queue = <<>> /\ pending = {}
  /\ \A i \in DOMAIN promises : promises[i].runs = 1 /\ promises[i].settled # "no"

\* C13: with every started probe completing, every task added to the queue
\* starts and completes, whatever its probe answers and however many more
\* tasks there are than slots: from any state with tasks added, a state is
\* reached where all of them (and those added since) have run and settled.
C13_EveryTaskCompletes == (promises # <<>>) ~> (Len(promises) = NumTasks /\ AllTasksDone)

\* More tasks than slots, every probe answered "absent" after a response or
\* with a transport failure, and all of them done.
C13_Witness ==
  /\ NumTasks > concurrency
  /\ Len(promises) = NumTasks /\ AllTasksDone
  /\ \A i \in DOMAIN promises : ~promises[i].exists
  /\ remote.bad = Failure("fetchRejects")

\* What the remote makes of a run, read off the remote alone: the first
\* commit of its list whose reference artifact probes as existing (undefined
\* when there is none), and the URLs of the matrix, in the order of the
\* loops, that probe as absent for it.
RemoteCommit ==
  LET built == {i \in DOMAIN remote.commits :
                  urlExists(AnswerFor(ReferenceUrl(remote.commits[i]))).value}
  IN  IF built = {} THEN undefined
      ELSE remote.commits[CHOOSE i \in built : \A j \in built : i <= j]

RemoteMissing(c) ==
  SelectSeq([k \in 1..NumTasks |-> DownloadUrl(c, k - 1)],
            LAMBDA url : ~urlExists(AnswerFor(url)).value)

\* C14: the outcome is fixed by the remote, whatever the order in which the
\* probes start and complete: the verdict, the commit, and the missing URLs
\* in the order of the matrix loops; and each task's flag is the result of
\* probing the task's own URL.
C14_OutcomeFixedByRemote ==
  Delivered =>
    /\ outcome = IF RemoteMissing(RemoteCommit) # <<>>
                 THEN MissingAssets(RemoteMissing(RemoteCommit))
                 ELSE Returned(RemoteCommit)
    /\ \A i \in DOMAIN promises :
         promises[i].exists = urlExists(AnswerFor(promises[i].downloadUrl)).value

\* One extension is absent for every engine: the error lists the four URLs,
\* which are not neighbours in the matrix, in the order of the loops.
C14_Witness ==
  /\ outcome.kind = "missingAssets"
  /\ Len(outcome.urls) = Len(engines)
  /\ \E x \in Range(extensions) :
       outcome.urls = [e \in 1..Len(engines) |->
                         getDownloadUrl("master", commit, "darwin", engines[e], x)]
  /\ commit \in Range(commits)

\* A probe has started and not completed, in the scan or in the pool.
ProbeInFlight == scanPending # {} \/ InFlight # {}

\* C15: once the commit list is retrieved, and with every probe completing,
\* getLatestTag comes to an outcome, a commit or an error; and it never has
\* an outcome while a probe of the scan or of the pool is still in flight,
\* so a probe that never completes keeps the outcome away for ever.
C15_TerminatesIffProbesComplete ==
  /\ (listResult = "ok") ~> (pc = "done" /\ outcome.kind \in {"returned", "missingAssets"})
  /\ [](listResult = "ok" /\ ProbeInFlight => outcome = NoOutcome /\ pc # "done")

\* The list was retrieved, probes were made in the scan and in the pool, and
\* the call ended with an error.
C15_Witness ==
  /\ listResult = "ok" /\ pc = "done"
  /\ outcome.kind = "missingAssets"
  /\ scanned # <<>> /\ Len(promises) = NumTasks
  /\ ~ProbeInFlight

\* C16: the phases run in order.  Until the scanner has finished nothing is
\* added to the queue or started; once something is, the scan has no probe
\* in flight and every URL of a task is one of branch "master" and of the
\* commit the scanner returned; the outcome of the aggregation comes only
\* with every task resolved; scan probes and verification probes are never
\* in flight together.
C16_PhasesInOrder ==
  /\ pc \in {"fetch", "scan"} =>
       promises = <<>> /\ queue = <<>> /\ pending = {} /\ loopK = 0
  /\ promises # <<>> =>
       /\ pc \in {"enqueue", "join", "done"}
       /\ scanPending = {}
       /\ commit = ScannerChoice
       /\ \A i \in DOMAIN promises :
            /\ promises[i].downloadUrl \in DOMAIN ArtifactAt
            /\ ArtifactAt[promises[i].downloadUrl].commit = commit
  /\ Delivered =>
       Len(promises) = NumTasks /\ \A i \in DOMAIN promises : promises[i].settled = "resolved"
  /\ ~(scanPending # {} /\ InFlight # {})

\* The scan made two probes and chose the second candidate; all tasks are
\* added, some run, some wait, and the call awaits them.
C16_Witness ==
  /\ pc = "join"
  /\ Len(scanned) = 2 /\ ~scanned[1].exists /\ scanned[2].exists
  /\ commit = commits[2]
  /\ InFlight # {} /\ queue # <<>>
  /\ \A i \in DOMAIN promises : ArtifactAt[promises[i].downloadUrl].commit = commits[2]

\* C17: nothing is retried and nothing falls back.  A reference probe that
\* succeeded is the last the scan makes; no task runs more than once and no
\* task is added beyond the matrix; and when a probe of the matrix reported
\* absence the call ends with the missing-assets error, which carries no
\* commit, with nothing left running or waiting.
C17_NoRetryNoFallback ==
  /\ \A i \in DOMAIN scanned :
       scanned[i].exists =>
         i = Len(scanned) /\ scanPending = {} /\ scanNext = i + 1 /\ commit = scanned[i].commit
  /\ \A i \in DOMAIN promises : promises[i].runs <= 1
  /\ Len(promises) = loopK /\ loopK <= NumTasks
  /\ (pc = "done" /\ \E i \in DOMAIN promises : promises[i].settled = "resolved" /\ ~promises[i].exists) =>
       /\ outcome.kind = "missingAssets" /\ outcome.commit = ""
       /\ Len(promises) = NumTasks
       /\ \A i \in DOMAIN promises : promises[i].runs = 1
       /\ pending = {} /\ queue = <<>> /\ scanPending = {}

\* The newest candidate was chosen and its verification failed; an older
\* candidate is in the list and was never probed.
C17_Witness ==
  /\ outcome.kind = "missingAssets"
  /\ Len(commits) >= 2 /\ commit = commits[1]
  /\ Len(scanned) = 1 /\ scanned[1].exists
  /\ \A i \in DOMAIN promises : promises[i].runs = 1

\* The content-length header is missing or does not parse to a number.
MalformedLength(header) == parseInt(header).nan

\* C18: a probe that comes to false because the transport failed or because
\* the content-length is missing or malformed logs an entry; a response with
\* a status above 200 is logged even when the result is false; a probe
\* that is true with status 200 logs nothing.
C18_DegradedProbesLogged ==
  probeResult # NotCalled =>
    /\ (res.kind # "response" /\ ~probeResult.value) => probeResult.log # <<>>
    /\ (res.kind = "response" /\ MalformedLength(res.contentLength) /\ ~probeResult.value)
         => probeResult.log # <<>>
    /\ (res.kind = "response" /\ res.status > 200) => probeResult.log = <<"response">>
    /\ (probeResult.value /\ res.status = 200) => probeResult.log = <<>>

\* The tasks that have been started.
Started == {i \in DOMAIN promises : promises[i].runs > 0}

\* C19: the pool keeps no slot idle while a task waits, and starts tasks in
\* the order they were added: while the queue holds a task as many probes
\* are in flight as the limit allows, the tasks started are the first ones
\* added, and the queue holds the others in the order they were added.
C19_WorkConserving ==
  /\ queue # <<>> => Cardinality(InFlight) = concurrency
  /\ Started = 1..Cardinality(Started)
  /\ queue = [j \in 1..(Len(promises) - Cardinality(Started)) |-> Cardinality(Started) + j]

\* More tasks than slots: two have completed, their slots went to the next
\* two added, and the rest wait in order with every slot taken.
C19_Witness ==
  /\ NumTasks > concurrency
  /\ pc = "join"
  /\ Cardinality({i \in DOMAIN promises : promises[i].settled = "resolved"}) = 2
  /\ Started = 1..(concurrency + 2)
  /\ Cardinality(InFlight) = concurrency
  /\ Len(queue) = NumTasks - concurrency - 2 /\ Head(queue) = concurrency + 3

\* The database name of a model and of a field, as the claim reads them.
DbModelName(m) == IF m.dbName # null THEN m.dbName ELSE m.name

DbFieldName(f) == IF f.dbNames # <<>> THEN Head(f.dbNames) ELSE f.name

\* The local model has a remote model under its database name, and each of
\* its fields a remote field under the field's database name with the same
\* type and isList.
ModelInSync(m) ==
  \E j \in DOMAIN remoteModels :
    /\ DbModelName(remoteModels[j]) = DbModelName(m)
    /\ \A i \in DOMAIN m.fields :
         \E k \in DOMAIN remoteModels[j].fields :
           /\ DbFieldName(remoteModels[j].fields[k]) = DbFieldName(m.fields[i])
           /\ remoteModels[j].fields[k].type = m.fields[i].type
           /\ remoteModels[j].fields[k].isList = m.fields[i].isList

\* The names of the local models that are not in sync, in local order.
DriftingNames ==
  LET drifting == SelectSeq(localModels, LAMBDA m : ~ModelInSync(m))
  IN  [i \in DOMAIN drifting |-> drifting[i].name]

\* The remote schema without the models and fields no local one answers to.
RemoteWithLocalCounterpart ==
  LET local(rm) == {m \in Range(localModels) : DbModelName(m) = DbModelName(rm)}
      kept == SelectSeq(remoteModels, LAMBDA rm : local(rm) # {})
  IN  [j \in DOMAIN kept |->
         [kept[j] EXCEPT !.fields =
            SelectSeq(@, LAMBDA rf :
              \E m \in local(kept[j]) : \E f \in Range(m.fields) :
                DbFieldName(f) = DbFieldName(rf))]]

\* C20: Doctor.parse returns "Everything in sync" exactly when every local
\* model is in sync; otherwise it throws one error with one block for each
\* local model that is not, in the order of the local models; and the
\* outcome is the one it would have without the remote models and fields
\* that have no local counterpart.
C20_DoctorInSyncIff ==
  doctorResult # NotParsed =>
    /\ doctorResult.kind \in {"Everything in sync", "thrown"}
    /\ doctorResult.kind = "Everything in sync" <=>
         \A i \in DOMAIN localModels : ModelInSync(localModels[i])
    /\ [i \in DOMAIN doctorResult.messages |-> doctorResult.messages[i].name] = DriftingNames
    /\ doctorResult.kind = "thrown" <=> doctorResult.messages # <<>>
    /\ \A i \in DOMAIN doctorResult.messages : doctorResult.messages[i].lines # <<>>
    /\ doctorResult.messages = Messages(localModels, RemoteWithLocalCounterpart)

\* Two local models drift, the first, mapped to a table of another name, in
\* the list-ness of a field, the second by having no table; the database
\* holds a table no local model answers to, and the error has their two
\* blocks in local order.
C20_Witness ==
  /\ doctorResult.kind = "thrown"
  /\ Len(localModels) = 2 /\ Len(doctorResult.messages) = 2
  /\ localModels[1].dbName = "t" /\ localModels[2].name = "O"
  /\ doctorResult.messages[1].name = "M"
  /\ doctorResult.messages[1].lines =
       <<Line("Field has type locally, but remote", "a", "Inta", "a[]")>>
  /\ doctorResult.messages[2].name = "O"
  /\ doctorResult.messages[2].lines = <<Line("Model is missing in database", "", "", "")>>
  /\ RemoteN \in Range(remoteModels)

====
